---------------------------- MODULE Spec2Model ----------------------------
(***************************************************************************)
(* A model of dataviva/static/js/modules/tree_map.js: the page reads its   *)
(* configuration from the #tree_map element, fetches two metadata lookups  *)
(* and one observation table, joins them (buildData), hides the loading    *)
(* indicator and hands the records to the renderer (loadViz), whose depth  *)
(* switcher is fed by depthSelectorHelper.                                 *)
(*                                                                         *)
(* JavaScript values are modelled as follows.  An array is a sequence; the *)
(* operators below take and return JavaScript's 0-based indices.  An       *)
(* object is a function whose domain is its set of property names.  The    *)
(* value undefined is the string "undefined", which is also the property   *)
(* name JavaScript coerces it to and the text it concatenates as.          *)
(***************************************************************************)
EXTENDS Integers, Sequences, FiniteSets, TLC

VARIABLES
    tree_map,          \* the attributes of the #tree_map element
    lang,              \* document.documentElement.lang
    squares,           \* global: the squares (entity) level
    group,             \* global: the grouping level
    depths,            \* global: the depth chain array
    dataset,           \* global: the dataset name
    filters,           \* global: the pre-encoded filter string
    dictionary,        \* global: the localization table
    server,            \* the API: locator -> payload
    status,            \* per request 0..2: "pending", "done" or "failed"
    arrival,           \* the requests in the order their responses arrived
    responses,         \* what the queue has collected, by request position
    pc,                \* where the page-load sequence stands
    squaresMetadata,   \* the callback's local
    groupMetadata,     \* the callback's local
    data,              \* the callback's local: buildData's result
    loadingVisible,    \* whether the loading indicator is shown
    viz                \* the renderer's configuration

vars == <<tree_map, lang, squares, group, depths, dataset, filters, dictionary,
          server, status, arrival, responses, pc, squaresMetadata,
          groupMetadata, data, loadingVisible, viz>>

----------------------------------------------------------------------------
(* Bounds and input domains *)

MaxRows == 2
MaxDepths == 3
MaxLoadRows == 1

Undefined == "undefined"

Codes == {"a", "b"}
LoadCodes == {"a"}
Levels == {"state", "municipality", "section"}
Langs == {"en", "pt"}

Range(s) == {s[k] : k \in 1..Len(s)}

SeqsUpTo(S, n) == UNION {[1..k -> S] : k \in 0..n}

NonEmptySeqsUpTo(S, n) == UNION {[1..k -> S] : k \in 1..n}

----------------------------------------------------------------------------
(* JavaScript primitives *)

\* Array.prototype.indexOf: the first 0-based index of x, or -1
indexOf(array, x) ==
    IF \E k \in 1..Len(array) : array[k] = x
    THEN (CHOOSE k \in 1..Len(array) :
              array[k] = x /\ \A j \in 1..(k - 1) : array[j] # x) - 1
    ELSE -1

\* array[i] for a 0-based i; undefined outside the array
At(array, i) == IF i >= 0 /\ i < Len(array) THEN array[i + 1] ELSE Undefined

\* the array after array.splice(start, deleteCount); a negative start counts
\* from the end
splice(array, start, deleteCount) ==
    LET len == Len(array)
        from == IF start < 0
                THEN (IF len + start < 0 THEN 0 ELSE len + start)
                ELSE (IF start > len THEN len ELSE start)
        cnt == IF deleteCount < 0 THEN 0
               ELSE IF deleteCount > len - from THEN len - from
               ELSE deleteCount
    IN  SubSeq(array, 1, from) \o SubSeq(array, from + cnt + 1, len)

\* obj[key]
Get(obj, key) == IF key \in DOMAIN obj THEN obj[key] ELSE Undefined

\* obj after obj[key] = value
Set(obj, key, value) ==
    [k \in (DOMAIN obj) \cup {key} |-> IF k = key THEN value ELSE obj[k]]

----------------------------------------------------------------------------
(* Globals derived from the page *)

\* the locators with the two metadata requests in the other order
urlsOfSwapped(sq, gr, ds, fl) ==
    << "http://api.staging.dataviva.info/metadata/"
           \o (IF gr = "section" THEN "product_section" ELSE gr),
       "http://api.staging.dataviva.info/metadata/" \o sq,
       "http://api.staging.dataviva.info/" \o ds \o "/year/" \o sq \o "/"
           \o gr \o "?" \o fl >>

\* the three locators, in the order they are requested
urlsOf(sq, gr, ds, fl) ==
    << "http://api.staging.dataviva.info/metadata/" \o sq,
       "http://api.staging.dataviva.info/metadata/"
           \o (IF gr = "section" THEN "product_section" ELSE gr),
       "http://api.staging.dataviva.info/" \o ds \o "/year/" \o sq \o "/"
           \o gr \o "?" \o fl >>

urls == urlsOf(squares, group, dataset, filters)

\* the two entries the module writes into the localization table
dictionaryFor(l) ==
    ("state" :> (IF l = "en" THEN "State" ELSE "Estado"))
    @@ ("municipality" :> (IF l = "en" THEN "Municipality" ELSE "Municipio"))

----------------------------------------------------------------------------
(* buildData *)

getAttrByName(headers, item, attr) == At(item, indexOf(headers, attr))

\* the object built from one positional row
dataItemOf(headers, item) ==
    [header \in Range(headers) |-> getAttrByName(headers, item, header)]

\* reading a property of metadata[code] throws when metadata[code] is undefined
throws(metadata, code) == code \notin DOMAIN metadata

\* metadata[code]['name_' + lang]
localized(metadata, code) == Get(metadata[code], "name_" \o lang)

\* a guard that looks at the squares level instead of the grouping level
hasIconBySquares == squares = "section"

hasIcon == group = "section"

\* an icon path built from the entity column instead of the group column
iconPathFromSquares(item) ==
    "/static/img/icons/" \o group \o "/section_" \o Get(item, squares) \o ".png"

iconPath(item) ==
    "/static/img/icons/" \o group \o "/section_" \o Get(item, group) \o ".png"

\* the body of the try block on one record: whether it threw, and the record
\* as the block left it
enrichItem(item, sqMeta, grMeta) ==
    IF throws(sqMeta, Get(item, squares))
    THEN [thrown |-> TRUE, item |-> item]
    ELSE LET named == Set(item, squares, localized(sqMeta, Get(item, squares)))
             iconed == IF hasIcon THEN Set(named, "icon", iconPath(named))
                       ELSE named
         IN  IF throws(grMeta, Get(iconed, group))
             THEN [thrown |-> TRUE, item |-> iconed]
             ELSE [thrown |-> FALSE,
                   item |-> Set(iconed, group,
                                localized(grMeta, Get(iconed, group)))]

\* a forward traversal that removes in place and so skips the record that
\* moves into the freed position
RECURSIVE forwardLoop(_, _, _, _)
forwardLoop(records, i, sqMeta, grMeta) ==
    IF i >= Len(records) THEN records
    ELSE LET r == enrichItem(At(records, i), sqMeta, grMeta)
         IN  IF r.thrown
             THEN forwardLoop(splice(records, i, 1), i + 1, sqMeta, grMeta)
             ELSE forwardLoop([records EXCEPT ![i + 1] = r.item], i + 1,
                              sqMeta, grMeta)

filterLoopForward(records, i, sqMeta, grMeta) ==
    forwardLoop(records, 0, sqMeta, grMeta)

\* for (var i = data.length - 1; i >= 0; i--) try { ... } catch { splice }
RECURSIVE filterLoop(_, _, _, _)
filterLoop(records, i, sqMeta, grMeta) ==
    IF i < 0 THEN records
    ELSE LET r == enrichItem(At(records, i), sqMeta, grMeta)
         IN  IF r.thrown
             THEN filterLoop(splice(records, i, 1), i - 1, sqMeta, grMeta)
             ELSE filterLoop([records EXCEPT ![i + 1] = r.item], i - 1,
                             sqMeta, grMeta)

\* a variant that registers the icon column in the table's own header list
buildDataTouchingHeaders(responseApi, sqMeta, grMeta) ==
    LET headers == responseApi.headers
        items == [k \in 1..Len(responseApi.data) |->
                      dataItemOf(headers, responseApi.data[k])]
    IN  [data |-> filterLoop(items, Len(items) - 1, sqMeta, grMeta),
         responseApi |-> [responseApi EXCEPT !.headers = Append(@, "icon")],
         squaresMetadata |-> sqMeta,
         groupMetadata |-> grMeta]

\* buildData's result (data) and its three argument objects as the call
\* leaves them
buildData(responseApi, sqMeta, grMeta) ==
    LET headers == responseApi.headers
        items == [k \in 1..Len(responseApi.data) |->
                      dataItemOf(headers, responseApi.data[k])]
    IN  [data |-> filterLoop(items, Len(items) - 1, sqMeta, grMeta),
         responseApi |-> responseApi,
         squaresMetadata |-> sqMeta,
         groupMetadata |-> grMeta]

----------------------------------------------------------------------------
(* loadViz *)

\* {[dictionary[item]]: item}
labelled(item) == (Get(dictionary, item) :> item)

\* the level a single-entry mapping of the switcher stands for
levelOf(entry) == entry[CHOOSE k \in DOMAIN entry : TRUE]

\* a reordering that puts the current level last instead of first
reorderToEnd(array, element) ==
    Append(splice(array, indexOf(array, element), 1), element)

\* newArray after the two splice calls, before it is labelled
reorder(array, element) ==
    <<element>> \o splice(array, indexOf(array, element), 1)

\* a variant that splices the array it is given instead of a copy of it
depthSelectorHelperInPlace(array, element) ==
    LET newArray == reorder(array, element)
    IN  [result |-> [k \in 1..Len(newArray) |-> labelled(newArray[k])],
         array |-> newArray]

\* depthSelectorHelper's result and its array argument as the call leaves it
depthSelectorHelper(array, element) ==
    LET newArray == reorder(array, element)
    IN  [result |-> [k \in 1..Len(newArray) |-> labelled(newArray[k])],
         array |-> array]

----------------------------------------------------------------------------
(* The API behind the locators, and the payloads it may serve *)

MetadataEndpoint(level) ==
    "http://api.staging.dataviva.info/metadata/" \o level

GroupEndpoint(gr) ==
    MetadataEndpoint(IF gr = "section" THEN "product_section" ELSE gr)

DatasetEndpoint(ds, sq, gr, fl) ==
    "http://api.staging.dataviva.info/" \o ds \o "/year/" \o sq \o "/" \o gr
        \o "?" \o fl

ServerWith(attrs, sqMeta, grMeta, table) ==
    (DatasetEndpoint(attrs.dataset, attrs.squares, attrs.group, attrs.filters)
         :> table)
    @@ (MetadataEndpoint(attrs.squares) :> sqMeta)
    @@ (GroupEndpoint(attrs.group) :> grMeta)

\* a metadata record of a code: with both localized names, or the English one
MetaRecord(code, kind) ==
    IF kind = "both"
    THEN ("name_en" :> (code \o " (en)")) @@ ("name_pt" :> (code \o " (pt)"))
    ELSE ("name_en" :> (code \o " (en)"))

\* every lookup table over the codes: a code is absent, or has a record
Lookups(codes) ==
    { [c \in {x \in codes : f[x] # "absent"} |-> MetaRecord(c, f[c])] :
          f \in [codes -> {"absent", "en", "both"}] }

ColumnValues(header, codes) ==
    IF header \in Levels THEN codes
    ELSE IF header = "value" THEN {"123"}
    ELSE {"x.png"}

RowsFor(headers, codes) ==
    { row \in [1..Len(headers) -> codes \cup {"123", "x.png"}] :
          \A k \in 1..Len(headers) : row[k] \in ColumnValues(headers[k], codes) }

Tables(headerChoices, codes, n) ==
    UNION { { [headers |-> h, data |-> rows] :
                  rows \in SeqsUpTo(RowsFor(h, codes), n) } :
            h \in headerChoices }

HeaderChoices ==
    { <<"municipality", "section", "value">>,
      <<"state", "municipality", "value">>,
      <<"municipality", "state", "icon">> }

\* the attributes of #tree_map; depths holds the '+'-separated segments
Attrs(sqs, grs, depthChains) ==
    { [squares |-> sq, group |-> gr, depths |-> d, dataset |-> "secex",
       filters |-> "year=2014"] : sq \in sqs, gr \in grs, d \in depthChains }

----------------------------------------------------------------------------
(* Initial states *)

\* the page as the script leaves it: the three requests issued
Loaded(attrs, l, sqMeta, grMeta, table) ==
    /\ tree_map = attrs
    /\ lang = l
    /\ squares = attrs.squares
    /\ group = attrs.group
    /\ depths = attrs.depths
    /\ dataset = attrs.dataset
    /\ filters = attrs.filters
    /\ dictionary = dictionaryFor(l)
    /\ server = ServerWith(attrs, sqMeta, grMeta, table)
    /\ status = [i \in 0..2 |-> "pending"]
    /\ arrival = <<>>
    /\ responses = [i \in 0..2 |-> Undefined]
    /\ pc = "waiting"
    /\ squaresMetadata = Undefined
    /\ groupMetadata = Undefined
    /\ data = Undefined
    /\ loadingVisible = TRUE
    /\ viz = [drawn |-> FALSE]

\* the page at the join point: the three responses delivered in request order
Joined(attrs, l, sqMeta, grMeta, table) ==
    /\ tree_map = attrs
    /\ lang = l
    /\ squares = attrs.squares
    /\ group = attrs.group
    /\ depths = attrs.depths
    /\ dataset = attrs.dataset
    /\ filters = attrs.filters
    /\ dictionary = dictionaryFor(l)
    /\ server = ServerWith(attrs, sqMeta, grMeta, table)
    /\ status = [i \in 0..2 |-> "done"]
    /\ arrival = <<0, 1, 2>>
    /\ responses = (0 :> sqMeta) @@ (1 :> grMeta) @@ (2 :> table)
    /\ pc = "callback"
    /\ squaresMetadata = Undefined
    /\ groupMetadata = Undefined
    /\ data = Undefined
    /\ loadingVisible = TRUE
    /\ viz = [drawn |-> FALSE]

Init ==
    \E attrs \in Attrs({"municipality"}, {"section", "state"},
                       {<<"state", "municipality">>}),
       l \in Langs,
       sqMeta \in Lookups(LoadCodes),
       grMeta \in Lookups(LoadCodes),
       table \in Tables({<<"municipality", "section", "value">>,
                         <<"state", "municipality", "value">>},
                        LoadCodes, MaxLoadRows) :
        Loaded(attrs, l, sqMeta, grMeta, table)

\* the squares and grouping levels of the enrichment runs: two ordinary
\* pairs, and one with the same level on both sides
LevelPairs ==
    { <<"municipality", "section">>, <<"municipality", "state">>,
      <<"section", "section">> }

InitEnrich ==
    \E pair \in LevelPairs,
       l \in Langs,
       sqMeta \in Lookups(Codes),
       grMeta \in Lookups(Codes),
       table \in Tables(HeaderChoices, Codes, MaxRows) :
        \E attrs \in Attrs({pair[1]}, {pair[2]}, {<<pair[1]>>}) :
            Joined(attrs, l, sqMeta, grMeta, table)

InitDepth ==
    \E attrs \in Attrs(Levels, {"state"}, NonEmptySeqsUpTo(Levels, MaxDepths)),
       l \in Langs :
        Loaded(attrs, l,
               [c \in Codes |-> MetaRecord(c, "both")],
               [c \in Codes |-> MetaRecord(c, "both")],
               [headers |-> <<attrs.squares, "value">>,
                data |-> << <<"a", "123">> >>])

----------------------------------------------------------------------------
(* The request queue *)

allDone(st) == \A i \in 0..2 : st[i] = "done"

\* request i succeeds: the queue stores the payload at position i and, once
\* all three are in, invokes the callback with the collected array
FetchSuccess(i) ==
    /\ pc = "waiting"
    /\ status[i] = "pending"
    /\ At(urls, i) \in DOMAIN server
    /\ status' = [status EXCEPT ![i] = "done"]
    /\ arrival' = Append(arrival, i)
    /\ responses' = [responses EXCEPT ![i] = server[At(urls, i)]]
    /\ pc' = IF allDone(status') THEN "callback" ELSE "waiting"
    /\ UNCHANGED <<tree_map, lang, squares, group, depths, dataset, filters,
                   dictionary, server, squaresMetadata, groupMetadata, data,
                   loadingVisible, viz>>

\* request i fails: the callback will never be invoked
FetchFail(i) ==
    /\ pc = "waiting"
    /\ status[i] = "pending"
    /\ status' = [status EXCEPT ![i] = "failed"]
    /\ UNCHANGED <<tree_map, lang, squares, group, depths, dataset, filters,
                   dictionary, server, arrival, responses, pc, squaresMetadata,
                   groupMetadata, data, loadingVisible, viz>>

----------------------------------------------------------------------------
(* The callback *)

\* var squaresMetadata = responses[0], groupMetadata = responses[1],
\*     data = buildData(responses[2], squaresMetadata, groupMetadata)
CallbackBuildData ==
    /\ pc = "callback"
    /\ LET r == buildData(responses[2], responses[0], responses[1])
       IN  /\ squaresMetadata' = r.squaresMetadata
           /\ groupMetadata' = r.groupMetadata
           /\ data' = r.data
           /\ responses' = (0 :> r.squaresMetadata) @@ (1 :> r.groupMetadata)
                               @@ (2 :> r.responseApi)
    /\ pc' = "hide"
    /\ UNCHANGED <<tree_map, lang, squares, group, depths, dataset, filters,
                   dictionary, server, status, arrival, loadingVisible, viz>>

\* loading.hide()
CallbackHide ==
    /\ pc = "hide"
    /\ loadingVisible' = FALSE
    /\ pc' = "loadViz"
    /\ UNCHANGED <<tree_map, lang, squares, group, depths, dataset, filters,
                   dictionary, server, status, arrival, responses,
                   squaresMetadata, groupMetadata, data, viz>>

\* the renderer's configuration as loadViz builds it, and the depths array as
\* depthSelectorHelper leaves it
vizOf(records) ==
    LET helper == depthSelectorHelper(depths, squares)
    IN  [viz |-> [drawn |-> TRUE,
                  data |-> records,
                  id |-> depths,
                  size |-> "value",
                  depth |-> Len(depths) - 1,
                  color |-> group,
                  uiDefault |-> indexOf(depths, squares),
                  uiValue |-> helper.result,
                  selected |-> Undefined],
         depths |-> helper.array]

\* a callback that hands the records to the renderer with the indicator
\* still shown
CallbackLoadVizBeforeHide ==
    /\ pc = "hide"
    /\ viz' = vizOf(data).viz
    /\ depths' = vizOf(data).depths
    /\ pc' = "done"
    /\ UNCHANGED <<tree_map, lang, squares, group, dataset, filters,
                   dictionary, server, status, arrival, responses,
                   squaresMetadata, groupMetadata, data, loadingVisible>>

\* loadViz(data)
CallbackLoadViz ==
    /\ pc = "loadViz"
    /\ viz' = vizOf(data).viz
    /\ depths' = vizOf(data).depths
    /\ pc' = "done"
    /\ UNCHANGED <<tree_map, lang, squares, group, dataset, filters,
                   dictionary, server, status, arrival, responses,
                   squaresMetadata, groupMetadata, data, loadingVisible>>

\* the levels the depth switcher offers
Offered == {levelOf(viz.uiValue[k]) : k \in 1..Len(viz.uiValue)}

\* the depth switcher's method: viz.depth(depths.indexOf(value)).draw()
SelectDepth(value) ==
    /\ pc = "done"
    /\ value \in Offered
    /\ viz' = [viz EXCEPT !.depth = indexOf(depths, value),
                          !.selected = value]
    /\ UNCHANGED <<tree_map, lang, squares, group, depths, dataset, filters,
                   dictionary, server, status, arrival, responses, pc,
                   squaresMetadata, groupMetadata, data, loadingVisible>>

----------------------------------------------------------------------------
(* Specifications *)

NextPipeline ==
    \/ CallbackBuildData
    \/ CallbackHide
    \/ CallbackLoadViz
    \/ \E value \in Levels : SelectDepth(value)

Next ==
    \/ \E i \in 0..2 : FetchSuccess(i)
    \/ \E i \in 0..2 : FetchFail(i)
    \/ CallbackBuildData
    \/ CallbackHide
    \/ CallbackLoadViz
    \/ \E value \in Levels : SelectDepth(value)

\* the page load from the moment the requests are issued
Spec == Init /\ [][Next]_vars

\* buildData on every table and pair of lookups within the bounds
SpecEnrich == InitEnrich /\ [][NextPipeline]_vars

\* the page load over every depth chain within the bounds
SpecDepth == InitDepth /\ [][Next]_vars

----------------------------------------------------------------------------
(* What the claims speak of, stated on the payloads the API served *)

\* buildData has returned
Enriched == pc \in {"hide", "loadViz", "done"}

InTable == server[DatasetEndpoint(dataset, squares, group, filters)]

InSquares == server[MetadataEndpoint(squares)]

InGroup == server[GroupEndpoint(group)]

\* the value a positional row holds in a named column
CodeOf(row, column) ==
    IF column \in Range(InTable.headers)
    THEN row[CHOOSE k \in 1..Len(InTable.headers) :
                 InTable.headers[k] = column]
    ELSE Undefined

\* the row's entity code and group code are keys of their lookups
Resolvable(row) ==
    /\ CodeOf(row, squares) \in DOMAIN InSquares
    /\ CodeOf(row, group) \in DOMAIN InGroup

\* the positions of the resolvable rows, ascending
KeptRows ==
    SelectSeq([k \in 1..Len(InTable.data) |-> k],
              LAMBDA k : Resolvable(InTable.data[k]))

ColumnsPresent ==
    /\ squares # group
    /\ squares \in Range(InTable.headers)
    /\ group \in Range(InTable.headers)

Count(array, x) == Cardinality({k \in 1..Len(array) : array[k] = x})

\* C1: with the entity and group columns distinct and present, buildData
\* returns one record per row whose two codes are keys of the lookups, in
\* the rows' order, and none for any other row; so the result is no longer
\* than the input and as long exactly when no row misses.
C1_Subsequence ==
    (Enriched /\ ColumnsPresent) =>
        /\ Len(data) = Len(KeptRows)
        /\ \A j \in 1..Len(data) :
               LET row == InTable.data[KeptRows[j]]
               IN  /\ \A h \in Range(InTable.headers) \ {squares, group} :
                          data[j][h] = CodeOf(row, h)
                   /\ data[j][squares] =
                          Get(InSquares[CodeOf(row, squares)], "name_" \o lang)
                   /\ data[j][group] =
                          Get(InGroup[CodeOf(row, group)], "name_" \o lang)
        /\ Len(data) <= Len(InTable.data)
        /\ (Len(data) = Len(InTable.data)) <=>
               (\A k \in 1..Len(InTable.data) : Resolvable(InTable.data[k]))

\* two rows, the first dropped and the second kept
C1_Witness ==
    /\ Enriched
    /\ ColumnsPresent
    /\ Len(InTable.data) = 2
    /\ ~Resolvable(InTable.data[1])
    /\ Resolvable(InTable.data[2])
    /\ Len(data) = 1

\* C2: no emitted record holds undefined in its entity column or in its
\* group column, also when the code is a key whose record lacks the
\* localized name.
C2_NoUndefinedName ==
    Enriched =>
        \A j \in 1..Len(data) :
            /\ Get(data[j], squares) # Undefined
            /\ Get(data[j], group) # Undefined

\* C3: the indicator is hidden only after all three responses are in and the
\* table is enriched, the renderer is invoked only after that with the
\* enriched records, and after a failed fetch nothing of the callback runs.
C3_LoadOrder ==
    /\ Enriched => (allDone(status) /\ Len(arrival) = 3)
    /\ Enriched => (squaresMetadata = responses[0]
                        /\ groupMetadata = responses[1])
    /\ ~loadingVisible => Enriched
    /\ viz.drawn => (~loadingVisible /\ Enriched /\ viz.data = data)
    /\ (\E i \in 0..2 : status[i] = "failed") =>
           (pc = "waiting" /\ loadingVisible /\ ~viz.drawn)
    /\ (pc = "done") <=> viz.drawn

\* the chart drawn after the responses arrived in reverse order
C3_Witness ==
    /\ pc = "done"
    /\ viz.drawn
    /\ ~loadingVisible
    /\ arrival = <<2, 1, 0>>
    /\ Len(data) = 1

\* C4: with the current level absent from the depth chain, the switcher
\* still holds every level of the chain as often as the chain does and no
\* other level.
C4_AbsentLevelKeepsChain ==
    (viz.drawn /\ squares \notin Range(tree_map.depths)) =>
        LET levels == [k \in 1..Len(viz.uiValue) |-> levelOf(viz.uiValue[k])]
        IN  \A lvl \in Levels :
                Count(levels, lvl) = Count(tree_map.depths, lvl)

\* C5: with the current level occurring exactly once, the switcher holds one
\* single-entry mapping label -> level per level: the current level first,
\* the others after it in their original order, nothing added, removed or
\* duplicated.
C5_Permutation ==
    (viz.drawn /\ Count(tree_map.depths, squares) = 1) =>
        LET levels == [k \in 1..Len(viz.uiValue) |-> levelOf(viz.uiValue[k])]
        IN  /\ Len(viz.uiValue) = Len(tree_map.depths)
            /\ \A k \in 1..Len(viz.uiValue) :
                   /\ Cardinality(DOMAIN viz.uiValue[k]) = 1
                   /\ DOMAIN viz.uiValue[k] = {Get(dictionary, levels[k])}
            /\ levels = <<squares>>
                   \o SelectSeq(tree_map.depths, LAMBDA x : x # squares)
            /\ \A lvl \in Levels :
                   Count(levels, lvl) = Count(tree_map.depths, lvl)

\* a chain of three with the current level in the middle
C5_Witness ==
    /\ viz.drawn
    /\ Len(tree_map.depths) = 3
    /\ Count(tree_map.depths, squares) = 1
    /\ tree_map.depths[2] = squares
    /\ levelOf(viz.uiValue[1]) = squares

\* C6: unless the table has a column named icon, an emitted record has an
\* icon field exactly when the grouping column is "section".
C6_IconIffSection ==
    (Enriched /\ "icon" \notin Range(InTable.headers)) =>
        \A j \in 1..Len(data) :
            ("icon" \in DOMAIN data[j]) <=> (group = "section")

\* a record with an icon
C6_Witness ==
    /\ Enriched
    /\ group = "section"
    /\ Len(data) = 2
    /\ "icon" \in DOMAIN data[1]

\* C7: whatever the order of arrival, the callback takes the payload of the
\* squares metadata locator as entity lookup, that of the group metadata
\* locator as group lookup and that of the dataset locator as the table.
C7_RolesByPosition ==
    Enriched =>
        /\ squaresMetadata = server[MetadataEndpoint(squares)]
        /\ groupMetadata = server[GroupEndpoint(group)]
        /\ data = buildData(InTable, server[MetadataEndpoint(squares)],
                            server[GroupEndpoint(group)]).data

\* the callback ran after the table arrived first and the entity lookup
\* last, the two lookups differing
C7_Witness ==
    /\ Enriched
    /\ arrival = <<2, 1, 0>>
    /\ server[MetadataEndpoint(squares)] # server[GroupEndpoint(group)]
    /\ Len(data) = 1

\* C8: after buildData the table (headers and rows) and both lookups are
\* what they were before the call.
C8_InputsUntouched ==
    Enriched =>
        /\ responses[2] = InTable
        /\ responses[0] = InSquares
        /\ responses[1] = InGroup

\* a call that kept one row and dropped another
C8_Witness ==
    /\ Enriched
    /\ Len(InTable.data) = 2
    /\ Len(data) = 1
    /\ responses[2] = InTable

C10_DepthIndices ==
    viz.drawn =>
        /\ depths = tree_map.depths
        /\ squares \in Range(tree_map.depths) =>
               /\ \A v \in Offered :
                      /\ indexOf(depths, v) = indexOf(tree_map.depths, v)
                      /\ indexOf(depths, v) \in 0..(Len(tree_map.depths) - 1)
               /\ viz.selected # Undefined =>
                      /\ viz.depth = indexOf(tree_map.depths, viz.selected)
                      /\ viz.depth \in 0..(Len(tree_map.depths) - 1)
               /\ viz.uiDefault = indexOf(tree_map.depths, squares)
               /\ viz.uiDefault \in 0..(Len(tree_map.depths) - 1)

\* a level other than the current one selected in a chain of three
C10_Witness ==
    /\ viz.drawn
    /\ Len(tree_map.depths) = 3
    /\ squares \in Range(tree_map.depths)
    /\ viz.selected # Undefined
    /\ viz.selected # squares
    /\ viz.depth = 2

============================================================================
